---- MODULE Spec2Model ----
(***************************************************************************)
(* Model of the bump allocator of src/src/lib.rs: struct Arena with its    *)
(* constructor with_capacity, the queries can_fit / can_fit_slice, the     *)
(* private padding computation and the Allocator implementation for        *)
(* &Arena (allocate, deallocate).                                          *)
(*                                                                         *)
(* Machine words are WordBits wide.  Unchecked usize arithmetic either     *)
(* panics (overflow checks on) or wraps modulo 2^WordBits (checks off);   *)
(* a step whose arithmetic overflows may take either outcome.              *)
(***************************************************************************)
EXTENDS Integers, Sequences, FiniteSets, TLC

\* ------------------------------------------------------------------ bounds
WordBits == 9
MaxCapacity == 3
MaxAlignLog == 2
MaxSize == 2
MaxCount == 1
MaxBlocks == 2
MaxBaseShift == 2

\* ------------------------------------------------------------ machine words
WordMod == 2 ^ WordBits
UsizeMax == WordMod - 1
IsizeMax == (WordMod \div 2) - 1
NULL == 0

Aligns == {2 ^ k : k \in 0..MaxAlignLog}

MaxAlign == 2 ^ MaxAlignLog

\* Layout::from_size_align: the size, rounded up to the alignment, must not
\* exceed isize::MAX.
LayoutOk(size, align) == size <= IsizeMax - (align - 1)

Layouts == {l \in [size : 0..MaxSize, align : Aligns] : LayoutOk(l.size, l.align)}

\* Layout::new::<T>(): the size of a type is a multiple of its alignment.
TypeShapes == {l \in Layouts : l.size % l.align = 0}

Counts == (0..MaxCount) \cup {UsizeMax}

CapacityArgs == {0, MaxCapacity, IsizeMax + 1, UsizeMax}

\* Addresses the system allocator may return for a buffer of `capacity`
\* bytes (the layout asks for alignment 1): non-null, the buffer not reaching
\* the end of the address space.  One address on the largest alignment
\* boundary and one just below it.
BaseAddrs(capacity) == {b \in {MaxAlign - 1, MaxAlign} : b + capacity <= UsizeMax}

VARIABLES
    state,      \* "new": before with_capacity; "ok": an Arena exists;
                \* "ok_null": with_capacity returned an Arena over the null
                \* region; "err": with_capacity returned Err;
                \* "panicked": the program panicked or aborted
    base,       \* self.allocation.as_ptr() as usize
    len,        \* self.allocation.len()
    offset,     \* self.offset (the cursor)
    sysalloc,   \* what std::alloc::alloc did: "not_called", "null", "nonnull"
    blocks,     \* history: the blocks returned by successful allocate calls
    last        \* the last call and what it returned

vars == <<state, base, len, offset, sysalloc, blocks, last>>

NoCall == [op |-> "none", size |-> 0, align |-> 1, n |-> 0, ok |-> FALSE,
           addr |-> 0, fit |-> "na"]

Call(op, size, align, n, ok, addr, fit) ==
    [op |-> op, size |-> size, align |-> align, n |-> n, ok |-> ok,
     addr |-> addr, fit |-> fit]

Init ==
    /\ state = "new"
    /\ base = NULL
    /\ len = 0
    /\ offset = 0
    /\ sysalloc = "not_called"
    /\ blocks = <<>>
    /\ last = NoCall

\* -------------------------------------------------------------- with_capacity
\* Layout::array::<u8>(capacity): Err when capacity > isize::MAX.
LayoutArrayU8All(capacity) == TRUE

LayoutArrayU8(capacity) == capacity <= IsizeMax

\* offset: Cell::new(0)
NewArenaOffset(capacity) == 0

\* with_capacity returns Err(AllocError) from the `?` on the layout.
WithCapacityLayoutErr(capacity) ==
    /\ state = "new"
    /\ ~LayoutArrayU8(capacity)
    /\ state' = "err"
    /\ last' = Call("with_capacity", capacity, 1, 0, FALSE, 0, "na")
    /\ UNCHANGED <<base, len, offset, sysalloc, blocks>>

\* std::alloc::alloc returns the non-null pointer b; the Arena is built on it.
WithCapacityAt(capacity, b) ==
    /\ state = "new"
    /\ LayoutArrayU8(capacity)
    /\ base' = b
    /\ len' = capacity
    /\ offset' = NewArenaOffset(capacity)
    /\ sysalloc' = "nonnull"
    /\ state' = "ok"
    /\ last' = Call("with_capacity", capacity, 1, 0, TRUE, b, "na")
    /\ UNCHANGED blocks

WithCapacityOk(capacity) == \E b \in BaseAddrs(capacity) : WithCapacityAt(capacity, b)

\* std::alloc::alloc returns null.  The pointer is not tested: it goes
\* straight into slice::from_raw_parts_mut and Box::from_raw, which is
\* undefined behaviour.  Outcomes: the caller proceeds with an Arena over the
\* null region (every later use of it is undefined too and is not followed);
\* the caller reads the null Box as the Err variant of the Result (null is
\* the niche of Box); the non-null precondition check of from_raw_parts_mut
\* aborts the program.
WithCapacityNull(capacity) ==
    /\ state = "new"
    /\ LayoutArrayU8(capacity)
    /\ sysalloc' = "null"
    /\ \/ /\ state' = "ok_null"
          /\ base' = NULL
          /\ len' = capacity
          /\ offset' = NewArenaOffset(capacity)
          /\ last' = Call("with_capacity", capacity, 1, 0, TRUE, NULL, "na")
       \/ /\ state' = "err"
          /\ last' = Call("with_capacity", capacity, 1, 0, FALSE, NULL, "na")
          /\ UNCHANGED <<base, len, offset>>
       \/ /\ state' = "panicked"
          /\ last' = Call("with_capacity", capacity, 1, 0, FALSE, NULL, "na")
          /\ UNCHANGED <<base, len, offset>>
    /\ UNCHANGED blocks

\* -------------------------------------------------------------------- padding
\* `a + b` on usize: the wrapped value and whether it overflowed.
WAdd(a, b) == [val |-> (a + b) % WordMod, ovf |-> a + b > UsizeMax]

\* `a - b` on usize.
WSub(a, b) == [val |-> (a - b) % WordMod, ovf |-> a < b]

None == [some |-> FALSE, val |-> 0, ovf |-> FALSE]

Some(v) == [some |-> TRUE, val |-> v, ovf |-> FALSE]

PaddingOfOffset(layout) ==
    LET padding == (layout.align - (offset % layout.align)) % layout.align
        rem == len - offset
    IN  IF rem < padding \/ rem - padding < layout.size THEN None ELSE Some(padding)

PaddingNoSizeCheck(layout) ==
    LET ptr == base + offset
        padding == (layout.align - (ptr % layout.align)) % layout.align
        rem == len - offset
    IN  IF rem < padding THEN None ELSE Some(padding)

PaddingNotSubtracted(layout) ==
    LET ptr == base + offset
        padding == (layout.align - (ptr % layout.align)) % layout.align
        rem == len - offset
    IN  IF rem < layout.size THEN None ELSE Some(padding)

\* fn padding(&self, layout) -> Option<usize>.  `ovf` tells that one of the
\* two unchecked operations (the addition of line 44, the subtraction of
\* line 46) overflowed; `some`/`val` are then the result on wrapped values.
PaddingAtSwappedSub(as_ptr, alloc_len, off, layout) ==
    LET ptr == WAdd(as_ptr, off)
        pad == (layout.align - (ptr.val % layout.align)) % layout.align
        rem == WSub(off, alloc_len)
        ovf == ptr.ovf \/ rem.ovf
    IN  IF rem.val < pad \/ rem.val - pad < layout.size
        THEN [None EXCEPT !.ovf = ovf]
        ELSE [Some(pad) EXCEPT !.ovf = ovf]

PaddingAtOverAligned(as_ptr, alloc_len, off, layout) ==
    LET ptr == as_ptr + off
        pad == (2 * layout.align - (ptr % (2 * layout.align)))
                   % (2 * layout.align)
        rem == alloc_len - off
    IN  IF rem < pad \/ rem - pad < layout.size THEN None ELSE Some(pad)

PaddingAtNoOuterMod(as_ptr, alloc_len, off, layout) ==
    LET ptr == as_ptr + off
        pad == layout.align - (ptr % layout.align)
        rem == alloc_len - off
    IN  IF rem < pad \/ rem - pad < layout.size THEN None ELSE Some(pad)

PaddingAtStrict(as_ptr, alloc_len, off, layout) ==
    LET ptr == as_ptr + off
        pad == (layout.align - (ptr % layout.align)) % layout.align
        rem == alloc_len - off
    IN  IF rem < pad \/ rem - pad <= layout.size THEN None ELSE Some(pad)

\* Written over the three values it reads: as_ptr (the buffer's address),
\* allocation.len() and offset.get().
padding_at(as_ptr, alloc_len, off, layout) ==
    LET req_size == layout.size
        ptr      == WAdd(as_ptr, off)
        pad      == (layout.align - (ptr.val % layout.align)) % layout.align
        rem      == WSub(alloc_len, off)
        ovf      == ptr.ovf \/ rem.ovf
    IN  IF rem.val < pad
        THEN [None EXCEPT !.ovf = ovf]
        ELSE IF rem.val - pad < req_size
             THEN [None EXCEPT !.ovf = ovf]
             ELSE [Some(pad) EXCEPT !.ovf = ovf]

padding(layout) == padding_at(base, len, offset, layout)

\* -------------------------------------------------------------------- queries
CanFitSizeOnly(T) == IF len - offset >= T.size THEN Some(0) ELSE None

\* pub fn can_fit<T>(&self) -> bool
can_fit(T) == padding(T)

\* Layout::repeat(n): n elements of the padded size; Err when the product
\* overflows usize or the total exceeds what a Layout may hold.
repeat(T, n) ==
    LET padded_size == T.size + ((T.align - (T.size % T.align)) % T.align)
        alloc_size  == padded_size * n
    IN  IF alloc_size > UsizeMax \/ ~LayoutOk(alloc_size, T.align)
        THEN [ok |-> FALSE, layout |-> T]
        ELSE [ok |-> TRUE, layout |-> [size |-> alloc_size, align |-> T.align]]

CanFitSliceNoPadding(T, n) ==
    IF T.size * n <= IsizeMax - (T.align - 1) /\ len - offset >= T.size * n
    THEN Some(0)
    ELSE None

CanFitSliceOneElement(T, n) == padding(T)

\* pub fn can_fit_slice<T>(&self, n: usize) -> bool
can_fit_slice(T, n) ==
    LET r == repeat(T, n)
    IN  IF r.ok THEN padding(r.layout) ELSE None

QueryCommitsPadding(op, T, n, res) ==
    /\ state = "ok"
    /\ offset' = offset + res.val
    /\ last' = Call(op, T.size, T.align, n, res.some, 0, "na")
    /\ UNCHANGED <<state, base, len, sysalloc, blocks>>

\* A query panics when the padding computation overflows with overflow
\* checks on; otherwise it returns its answer and changes nothing.
Query(op, T, n, res) ==
    /\ state = "ok"
    /\ \/ /\ res.ovf
          /\ state' = "panicked"
          /\ last' = Call(op, T.size, T.align, n, FALSE, 0, "na")
       \/ /\ state' = state
          /\ last' = Call(op, T.size, T.align, n, res.some, 0, "na")
    /\ UNCHANGED <<base, len, offset, sysalloc, blocks>>

CanFit(T) == Query("can_fit", T, 1, can_fit(T))

CanFitSlice(T, n) == Query("can_fit_slice", T, n, can_fit_slice(T, n))

\* ------------------------------------------------------------------- allocate
\* self.allocation.as_ptr().add(self.offset.get()).add(padding)
padded_ptr(pad) == base + offset + pad

NextOffsetRewinds(pad, size) == WAdd(pad, size)

NextOffsetNoSize(pad, size) == WAdd(offset, pad)

NextOffsetNoPadding(pad, size) == WAdd(offset, size)

\* self.offset.get() + padding + layout.size(), over the cursor it reads.
next_offset_at(off, pad, size) ==
    LET a == WAdd(off, pad)
        b == WAdd(a.val, size)
    IN  [val |-> b.val, ovf |-> a.ovf \/ b.ovf]

next_offset(pad, size) == next_offset_at(offset, pad, size)

\* What the preceding call, if it was can_fit for the same layout, answered.
FitBefore(layout) ==
    IF last.op = "can_fit" /\ last.size = layout.size /\ last.align = layout.align
    THEN (IF last.ok THEN "yes" ELSE "no")
    ELSE "na"

AllocateErrAdvances(layout) ==
    /\ last' = Call("allocate", layout.size, layout.align, 1, FALSE, 0,
                    FitBefore(layout))
    /\ offset' = IF offset < len THEN offset + 1 ELSE offset
    /\ UNCHANGED <<state, base, len, sysalloc, blocks>>

\* allocate: padding is None, `ok_or(AllocError)?` returns Err(AllocError).
AllocateErr(layout) ==
    /\ last' = Call("allocate", layout.size, layout.align, 1, FALSE, 0,
                    FitBefore(layout))
    /\ UNCHANGED <<state, base, len, offset, sysalloc, blocks>>

\* allocate: padding is Some(pad); the block is built, the cursor advanced.
AllocateOk(layout, pad) ==
    LET ptr == padded_ptr(pad)
        new == next_offset(pad, layout.size)
        blk == [addr |-> ptr, size |-> layout.size, align |-> layout.align,
                pad |-> pad]
    IN  /\ Len(blocks) < MaxBlocks
        /\ \/ /\ new.ovf
              /\ state' = "panicked"
              /\ last' = Call("allocate", layout.size, layout.align, 1, FALSE,
                              0, FitBefore(layout))
              /\ UNCHANGED <<offset, blocks>>
           \/ /\ state' = state
              /\ offset' = new.val
              /\ blocks' = Append(blocks, blk)
              /\ last' = Call("allocate", layout.size, layout.align, 1, TRUE,
                              ptr, FitBefore(layout))
        /\ UNCHANGED <<base, len, sysalloc>>

\* fn allocate(&self, layout) -> Result<NonNull<[u8]>, AllocError>
Allocate(layout) ==
    /\ state = "ok"
    /\ LET p == padding(layout)
       IN  \/ /\ p.ovf
              /\ state' = "panicked"
              /\ last' = Call("allocate", layout.size, layout.align, 1, FALSE,
                              0, FitBefore(layout))
              /\ UNCHANGED <<base, len, offset, sysalloc, blocks>>
           \/ IF p.some THEN AllocateOk(layout, p.val) ELSE AllocateErr(layout)

\* ----------------------------------------------------------------- deallocate
DeallocateReclaims(blk) ==
    /\ state = "ok"
    /\ offset' = IF offset >= blk.size THEN offset - blk.size ELSE offset
    /\ last' = Call("deallocate", blk.size, blk.align, 1, TRUE, blk.addr, "na")
    /\ UNCHANGED <<state, base, len, sysalloc, blocks>>

\* unsafe fn deallocate(&self, _ptr, _layout) {}
Deallocate(blk) ==
    /\ state = "ok"
    /\ last' = Call("deallocate", blk.size, blk.align, 1, TRUE, blk.addr, "na")
    /\ UNCHANGED <<state, base, len, offset, sysalloc, blocks>>

\* --------------------------------------------------------------- specification
Next ==
    \/ \E c \in CapacityArgs : WithCapacityLayoutErr(c)
    \/ \E c \in CapacityArgs : WithCapacityOk(c)
    \/ \E c \in CapacityArgs : WithCapacityNull(c)
    \/ \E l \in Layouts : Allocate(l)
    \/ \E i \in 1..Len(blocks) : Deallocate(blocks[i])
    \/ \E T \in TypeShapes : CanFit(T)
    \/ \E T \in TypeShapes, n \in Counts : CanFitSlice(T, n)

Spec == Init /\ [][Next]_vars

TypeOK ==
    /\ state \in {"new", "ok", "ok_null", "err", "panicked"}
    /\ base \in 0..UsizeMax
    /\ len \in 0..UsizeMax
    /\ offset \in 0..UsizeMax
    /\ sysalloc \in {"not_called", "null", "nonnull"}
    /\ Len(blocks) <= MaxBlocks

\* ======================================================================
\* Properties
\* ======================================================================
Blocks == {blocks[i] : i \in 1..Len(blocks)}

\* The bytes of a block: [addr, addr + size).
Bytes(b) == b.addr .. (b.addr + b.size - 1)

RECURSIVE SumBlocks(_)
SumBlocks(s) ==
    IF s = <<>> THEN 0
    ELSE s[1].pad + s[1].size + SumBlocks(Tail(s))

\* The least p >= 0 with (addr + p) a multiple of align.
MinShift(addr, align) ==
    CHOOSE p \in 0..(align - 1) :
        /\ (addr + p) % align = 0
        /\ \A q \in 0..(align - 1) : (addr + q) % align = 0 => p <= q

\* "does not fit": remaining < padding, or remaining - padding < size.
DoesNotFit(size, align) ==
    LET remaining == len - offset
        pad       == MinShift(base + offset, align)
    IN  remaining < pad \/ remaining - pad < size

\* C1: in every state of an Arena, whatever calls were made on it,
\* 0 <= cursor <= capacity.
C1_CursorInBounds == state = "ok" => (0 <= offset /\ offset <= len)

\* C1 witness: the cursor reached the capacity and a further allocate failed.
C1_Witness ==
    /\ state = "ok" /\ len > 0 /\ offset = len
    /\ last.op = "allocate" /\ ~last.ok

\* C2: any two distinct blocks returned by successful allocate calls have
\* non-overlapping byte ranges.
C2_Disjoint ==
    \A i, j \in 1..Len(blocks) :
        i # j => Bytes(blocks[i]) \cap Bytes(blocks[j]) = {}

\* C2 witness: two non-empty blocks were issued and a deallocate followed.
C2_Witness ==
    /\ Len(blocks) >= 2
    /\ blocks[1].size > 0 /\ blocks[2].size > 0
    /\ last.op = "deallocate"

\* C3: the start address of every issued block is a multiple of the
\* alignment requested for it.
C3_Aligned == \A b \in Blocks : b.addr % b.align = 0

\* C3 witness: a block of alignment MaxAlign was issued from a cursor that
\* was not aligned (padding was needed).
C3_Witness == \E b \in Blocks : b.align = MaxAlign /\ b.pad > 0 /\ b.size > 0

\* C4: every issued block lies inside the buffer, and the block returned
\* has exactly the requested size.
C4_InsideBuffer ==
    /\ \A b \in Blocks : base <= b.addr /\ b.addr + b.size <= base + len
    /\ (last.op = "allocate" /\ last.ok) =>
           /\ blocks[Len(blocks)].size = last.size
           /\ blocks[Len(blocks)].addr = last.addr

\* C4 witness: a padded block that ends exactly at the end of the buffer.
C4_Witness ==
    \E b \in Blocks : b.pad > 0 /\ b.size > 0 /\ b.addr + b.size = base + len

\* C5: an allocate issued right after can_fit::<T>(), with T's size and
\* alignment, succeeds if and only if can_fit answered true.
C5_FitConsistent ==
    (last.op = "allocate" /\ last.fit # "na") => (last.ok <=> last.fit = "yes")

\* C5 witness: can_fit answered false for a type that needs padding while
\* bytes remained, and the allocate that followed failed.
C5_Witness ==
    /\ last.op = "allocate" /\ last.fit = "no" /\ ~last.ok
    /\ last.align > 1 /\ offset < len

\* C6: an allocate that does not fit returns an error, does not panic, and
\* leaves the Arena as it was.
C6_FailureLeavesArena ==
    [][(state = "ok" /\ last'.op = "allocate"
            /\ DoesNotFit(last'.size, last'.align))
        => (/\ ~last'.ok
            /\ state' = "ok"
            /\ UNCHANGED <<base, len, offset, sysalloc, blocks>>)]_vars

\* C6 witness: an allocate failed on an Arena that had issued blocks and
\* still had bytes left.
C6_Witness ==
    /\ state = "ok" /\ last.op = "allocate" /\ ~last.ok
    /\ 0 < offset /\ offset < len

\* C7: deallocate changes neither the cursor nor the buffer, and a request
\* for the layout of the block just released (the request that would profit
\* if its bytes were reclaimed) gets the same answer after the call as
\* before it.
C7_DeallocateNoOp ==
    [][last'.op = "deallocate"
        => (/\ UNCHANGED <<state, base, len, offset, blocks>>
            /\ \A b \in Blocks :
                   (b.addr = last'.addr /\ b.size = last'.size
                        /\ b.align = last'.align)
                   => /\ padding([size |-> b.size, align |-> b.align])'
                             = padding([size |-> b.size, align |-> b.align])
                      /\ can_fit_slice([size |-> 1, align |-> 1], b.size)'
                             = can_fit_slice([size |-> 1, align |-> 1], b.size))]_vars

\* C7 witness: a non-empty block was deallocated.
C7_Witness ==
    /\ last.op = "deallocate" /\ last.size > 0 /\ offset > 0

\* C8: the cursor equals the sum of padding + size over the successful
\* allocate calls, and that sum does not exceed the capacity.
C8_CursorIsRunningSum ==
    state = "ok" => (offset = SumBlocks(blocks) /\ SumBlocks(blocks) <= len)

\* C8 witness: two blocks were issued, the second one after padding.
C8_Witness ==
    /\ state = "ok" /\ Len(blocks) = 2
    /\ blocks[1].size > 0 /\ blocks[2].pad > 0

\* C9: when the system allocator returns null, with_capacity returns an
\* error and no Arena is produced.
C9_NullIsError == sysalloc = "null" => state = "err"

\* C10: a capacity above the largest array layout is refused without any
\* memory being requested; an Arena returned by with_capacity has cursor 0
\* and a buffer of exactly `capacity` bytes.
C10_WithCapacity ==
    last.op = "with_capacity" =>
        /\ last.size > IsizeMax =>
               (~last.ok /\ state = "err" /\ sysalloc = "not_called")
        /\ last.ok => (offset = 0 /\ len = last.size)

\* C10 witness: with_capacity refused a capacity above isize::MAX.
C10_Witness ==
    /\ last.op = "with_capacity" /\ last.size > IsizeMax /\ state = "err"

\* n * size_of(T) is a size a Layout of T's alignment may have.
SliceSizeOk(size, align, n) == size * n <= IsizeMax - (align - 1)

\* C11: can_fit_slice::<T>(n) answers true exactly when n * size_of(T) is a
\* valid layout size and a request of that size and T's alignment fits at the
\* cursor; an allocate of that size and alignment issued right after it has
\* the outcome the query announced.
C11_SliceFitConsistent ==
    /\ [](last.op = "can_fit_slice" =>
            (last.ok <=> (/\ SliceSizeOk(last.size, last.align, last.n)
                          /\ ~DoesNotFit(last.size * last.n, last.align))))
    /\ [][(/\ last.op = "can_fit_slice"
           /\ last'.op = "allocate"
           /\ SliceSizeOk(last.size, last.align, last.n)
           /\ last'.size = last.size * last.n
           /\ last'.align = last.align)
          => last'.ok = last.ok]_vars

\* C11 witness: on an Arena whose cursor has moved, a slice of several bytes
\* was found not to fit although its size is a valid layout size.
C11_Witness ==
    /\ state = "ok" /\ offset > 0
    /\ last.op = "can_fit_slice" /\ ~last.ok
    /\ last.size * last.n > 0
    /\ SliceSizeOk(last.size, last.align, last.n)

\* "does not fit" at cursor position o of this Arena.
DoesNotFitAt(o, size, align) ==
    LET remaining == len - o
        pad       == MinShift(base + o, align)
    IN  remaining < pad \/ remaining - pad < size

\* The cursor the Arena had when block b was issued.
CursorBefore(b) == b.addr - b.pad - base

\* The cursor values the Arena had in earlier states.
PastCursors == {CursorBefore(b) : b \in Blocks}

\* C12: a request (size, alignment) that did not fit at an earlier cursor
\* of the Arena does not fit now, and an allocate that succeeded fitted at
\* every earlier cursor.
C12_FailurePermanent ==
    state = "ok" =>
        /\ \A l \in Layouts, o \in PastCursors :
               DoesNotFitAt(o, l.size, l.align) => ~padding(l).some
        /\ (last.op = "allocate" /\ last.ok) =>
               \A o \in PastCursors : ~DoesNotFitAt(o, last.size, last.align)

\* C12 witness: an allocate failed for a request that fitted in the fresh
\* Arena, did not fit any more when the second block was issued, and was
\* issued again after that block.
C12_Witness ==
    /\ state = "ok" /\ Len(blocks) = 2 /\ blocks[2].pad + blocks[2].size > 0
    /\ last.op = "allocate" /\ ~last.ok
    /\ ~DoesNotFitAt(0, last.size, last.align)
    /\ DoesNotFitAt(CursorBefore(blocks[2]), last.size, last.align)

\* C13: no step of any operation moves the cursor back, and the remaining
\* space len - offset of an Arena never grows.
C13_CursorMonotone ==
    [][/\ offset' >= offset
       /\ state = "ok" => len' - offset' <= len - offset]_vars

\* C13 witness: the cursor moved twice and a query followed.
C13_Witness ==
    /\ state = "ok" /\ Len(blocks) = 2
    /\ blocks[1].pad + blocks[1].size > 0
    /\ blocks[2].pad + blocks[2].size > 0
    /\ last.op = "can_fit"

\* C14: can_fit and can_fit_slice, whatever they answer, leave the cursor,
\* the capacity, the buffer and the issued blocks as they were.
C14_QueriesPure ==
    [][last'.op \in {"can_fit", "can_fit_slice"}
        => UNCHANGED <<state, base, len, offset, blocks>>]_vars

\* C14 witness: a query answered true for a request that needs padding, on
\* an Arena whose cursor had moved.
C14_Witness ==
    /\ state = "ok" /\ offset > 0
    /\ last.op \in {"can_fit", "can_fit_slice"} /\ last.ok
    /\ MinShift(base + offset, last.align) > 0

\* ======================================================================
\* tests::test_allignement (scenario C)
\* ======================================================================
\* Arena::with_capacity(24)
TestCapacity == 24

\* Box::new_in(5u8, &arena): Layout::new::<u8>()
U8Layout == [size |-> 1, align |-> 1]

\* size_of::<u128>(), and align_of::<u128>() where it is 16
U128Bytes == 16

\* Box::new_in(u128::MAX, &arena): Layout::new::<u128>()
U128Layout == [size |-> U128Bytes, align |-> U128Bytes]

\* Every address the system allocator may return for `capacity` bytes of
\* alignment 1.
AllBaseAddrs(capacity) == {b \in 1..UsizeMax : b + capacity <= UsizeMax}

TestAlignNew == \E b \in AllBaseAddrs(TestCapacity) : WithCapacityAt(TestCapacity, b)

TestAlignBoxU8 == last.op = "with_capacity" /\ Allocate(U8Layout)

TestAlignBoxU128 ==
    /\ last.op = "allocate" /\ last.ok /\ last.size = U8Layout.size
    /\ Len(blocks) = 1
    /\ Allocate(U128Layout)

NextTestAlign == TestAlignNew \/ TestAlignBoxU8 \/ TestAlignBoxU128

SpecTestAlign == Init /\ [][NextTestAlign]_vars

\* C15: in scenario C, from every base address, the allocate of the 16-byte
\* value succeeds and returns an address that is a multiple of 16.
C15_ScenarioC ==
    (last.op = "allocate" /\ last.size = U128Layout.size)
        => (last.ok /\ last.addr % U128Layout.align = 0)

\* ======================================================================
\* tests::test_fit and tests::it_works_vec (scenarios D and B)
\* ======================================================================
\* arena.can_fit_slice::<u8>(200)
TestFitTooMany == 200

\* a.extend(0..10)
TestVecLen == 10

\* The element counts asked of can_fit_slice::<u8>: the tests' counts, and
\* the counts at the edge of the remaining space.
TestFitCounts ==
    {0, 1, TestCapacity, TestCapacity + 1, TestFitTooMany, UsizeMax}
        \cup {len - offset, len - offset + 1}

\* The requests made: Vec<u8> buffers of the tests' lengths, single bytes,
\* empty requests, and one aligned value.
TestFitLayouts ==
    {[size |-> s, align |-> 1] : s \in {0, 1, TestVecLen, TestCapacity}}
        \cup {U128Layout}

NextTestFit ==
    \/ WithCapacityOk(TestCapacity)
    \/ CanFit(U8Layout)
    \/ \E n \in TestFitCounts : CanFitSlice(U8Layout, n)
    \/ \E l \in TestFitLayouts : Allocate(l)

SpecTestFit == Init /\ [][NextTestFit]_vars

\* C16: requests of alignment 1 get padding 0; can_fit_slice::<u8>(n) is
\* true exactly when n <= capacity - cursor; with the cursor at the capacity
\* can_fit::<u8>() is false and no request of size >= 1 fits or succeeds.
C16_ByteRequests ==
    state = "ok" =>
        /\ \A b \in Blocks : b.align = 1 => b.pad = 0
        /\ (last.op = "can_fit_slice" /\ last.size = 1 /\ last.align = 1)
               => (last.ok <=> last.n <= len - offset)
        /\ (last.op = "allocate" /\ last.ok /\ last.size >= 1)
               => CursorBefore(blocks[Len(blocks)]) < len
        /\ offset = len =>
               /\ (last.op = "can_fit" /\ last.size >= 1) => ~last.ok
               /\ \A l \in TestFitLayouts : l.size >= 1 => ~padding(l).some

\* C16 witness: the 24 bytes were consumed by byte requests and
\* can_fit::<u8>() then answered false.
C16_Witness ==
    /\ state = "ok" /\ len = TestCapacity /\ offset = len
    /\ \A b \in Blocks : b.align = 1
    /\ last.op = "can_fit" /\ ~last.ok

\* C17: whenever padding returns Some(p) for a request at address
\* addr = base + cursor, p = (align - addr mod align) mod align, p is the
\* least shift that aligns addr, p < align, and p = 0 when addr is aligned;
\* the padding of every issued block is that least shift.
C17_PaddingIsLeastShift ==
    state = "ok" =>
        /\ \A l \in Layouts :
               LET p    == padding(l)
                   addr == base + offset
               IN  p.some =>
                       /\ p.val = (l.align - (addr % l.align)) % l.align
                       /\ p.val = MinShift(addr, l.align)
                       /\ p.val < l.align
                       /\ addr % l.align = 0 => p.val = 0
        /\ \A b \in Blocks : b.pad = MinShift(b.addr - b.pad, b.align)

\* C17 witness: a second block was issued after padding, and a request whose
\* alignment the cursor already meets fits.
C17_Witness ==
    /\ state = "ok" /\ Len(blocks) = 2 /\ blocks[2].pad > 0
    /\ last.op = "allocate" /\ last.ok
    /\ \E l \in Layouts :
           l.align > 1 /\ (base + offset) % l.align = 0 /\ padding(l).some

\* C18 as claimed: can_fit_slice::<T>(0) answers true for every T in every
\* state of the Arena (stated for Arenas of non-zero capacity).
C18_ZeroSliceAlwaysFits ==
    (state = "ok" /\ len > 0 /\ last.op = "can_fit_slice" /\ last.n = 0)
        => last.ok

\* C18 amended: can_fit_slice::<T>(0) answers true exactly when the padding
\* that aligns the cursor to T's alignment is at most capacity - cursor;
\* for alignment 1 that is always.
C18_ZeroSliceFitsIffPaddingFits ==
    (state = "ok" /\ last.op = "can_fit_slice" /\ last.n = 0) =>
        /\ last.ok <=> MinShift(base + offset, last.align) <= len - offset
        /\ last.align = 1 => last.ok

\* C18 witness: with the cursor at the capacity, a zero-length slice of an
\* aligned type fits (the cursor meets the alignment).
C18_Witness ==
    /\ state = "ok" /\ len > 0 /\ offset = len
    /\ last.op = "can_fit_slice" /\ last.n = 0 /\ last.align > 1 /\ last.ok

\* ======================================================================
\* Arenas at the top of the address space
\* ======================================================================
\* Buffers that end at the last byte of the address space
\* (base + capacity = usize::MAX) and buffers that end one past it
\* (base + capacity = 2^WordBits).
TopBaseAddrs(capacity) ==
    {b \in 1..UsizeMax : b + capacity \in {UsizeMax, WordMod}}

WithCapacityTop(capacity) ==
    \E b \in TopBaseAddrs(capacity) : WithCapacityAt(capacity, b)

NextTop ==
    \/ \E c \in CapacityArgs : WithCapacityTop(c)
    \/ \E l \in Layouts : Allocate(l)
    \/ \E i \in 1..Len(blocks) : Deallocate(blocks[i])
    \/ \E T \in TypeShapes : CanFit(T)
    \/ \E T \in TypeShapes, n \in Counts : CanFitSlice(T, n)

SpecTop == Init /\ [][NextTop]_vars

\* The layouts of the model and, for every alignment, the largest layout.
WrapLayouts ==
    Layouts \cup {[size |-> IsizeMax - (a - 1), align |-> a] : a \in Aligns}

\* No arithmetic step of padding or allocate wraps: nothing panicked,
\* base + cursor fits a word, capacity - cursor does not underflow, the
\* padding is subtracted only from a remainder that holds it, and
\* cursor + padding + size fits a word, for every layout.
NoWrap ==
    /\ state = "ok"
    /\ base + offset <= UsizeMax
    /\ offset <= len
    /\ \A l \in WrapLayouts :
           LET p == padding(l)
           IN  /\ ~p.ovf
               /\ p.some => /\ p.val <= len - offset
                            /\ ~next_offset(p.val, l.size).ovf

UsedAlign ==
    LET used == {b.align : b \in Blocks} \cup {last.align}
    IN  CHOOSE a \in used : \A x \in used : x <= a

\* Base addresses of a second buffer of the same capacity, congruent to
\* base modulo every alignment used.
CongruentBases == {base + k * UsedAlign : k \in 1..MaxBaseShift}

\* Base addresses next to base, congruent to it modulo no alignment but 1.
NeighbourBases == {b \in {base - 1, base + 1} : b > 0}

\* The successful allocations i.. of the history made again, in order, on
\* an Arena of the same capacity at address b2 whose cursor is cur: `same`
\* tells that each succeeded at the cursor and with the padding, and hence
\* at the offset from the base, it had on the first Arena; `cursor` is the
\* second Arena's cursor afterwards.
RECURSIVE ReplayFrom(_, _, _)
ReplayFrom(b2, i, cur) ==
    IF i > Len(blocks)
    THEN [same |-> TRUE, cursor |-> cur]
    ELSE LET blk == blocks[i]
             p   == padding_at(b2, len, cur,
                               [size |-> blk.size, align |-> blk.align])
         IN  IF /\ p.some /\ ~p.ovf
                /\ cur = CursorBefore(blk)
                /\ p.val = blk.pad
                /\ cur + p.val = blk.addr - base
             THEN ReplayFrom(b2, i + 1,
                             next_offset_at(cur, p.val, blk.size).val)
             ELSE [same |-> FALSE, cursor |-> cur]

\* What the last call answers on the second Arena, whose cursor is cur.
\* A successful allocate and a deallocate are covered by the history.
AnswerAt(b2, cur) ==
    LET T == [size |-> last.size, align |-> last.align]
    IN  CASE last.op = "can_fit" -> padding_at(b2, len, cur, T).some
          [] last.op = "can_fit_slice" ->
                 LET r == repeat(T, last.n)
                 IN  r.ok /\ padding_at(b2, len, cur, r.layout).some
          [] last.op = "allocate" /\ ~last.ok ->
                 padding_at(b2, len, cur, T).some
          [] OTHER -> last.ok

\* C20: an Arena of the same capacity whose base is congruent to base
\* modulo every alignment used, driven by the same calls, issues the same
\* blocks at the same offsets from its base, has the same cursor at every
\* step and at the end, and gives the last call the same answer.
C20_CongruentBasesAgree ==
    state = "ok" =>
        \A b2 \in CongruentBases :
            LET r == ReplayFrom(b2, 1, NewArenaOffset(len))
            IN  /\ r.same
                /\ r.cursor = offset
                /\ AnswerAt(b2, r.cursor) = last.ok

\* C20 witness: after one allocation an allocate fails on this Arena; on
\* the congruent bases the same calls give the same results, and on a
\* neighbouring base, not congruent, the first allocation is the same and
\* the second allocate succeeds.
C20_Witness ==
    /\ state = "ok" /\ Len(blocks) >= 1 /\ offset > 0 /\ offset < len
    /\ last.op = "allocate" /\ ~last.ok /\ last.align > 1
    /\ \A b2 \in CongruentBases : ~AnswerAt(b2, offset)
    /\ \E b3 \in NeighbourBases :
           LET r == ReplayFrom(b3, 1, NewArenaOffset(len))
           IN  r.same /\ AnswerAt(b3, r.cursor)

====
